---- MODULE Spec2Model ----
(***************************************************************************)
(* Data entries of src/src/DataItems.py: DataItem, DataEntry (construction, *)
(* merge, apply_tokens, apply_pairing) and merge_lists.                     *)
(*                                                                          *)
(* An entry object is a record [unique, data].  data is the dict of the     *)
(* entry in insertion order: a sequence of slots, one per key.  A slot is   *)
(* [delimiter, islist, vals]: a single DataItem (islist = FALSE, one value) *)
(* or the Python list a Redundant Storage field was promoted to (islist =   *)
(* TRUE, the values of its DataItems in order).  The key of a slot is its   *)
(* delimiter's desc, as in DataEntry.__init__ and merge.                    *)
(*                                                                          *)
(* heap is the sequence of the entry objects alive; an entry list is a      *)
(* sequence of indices into heap.  last records the last call made: its     *)
(* arguments, the heap before it, the exception it raised and its result.   *)
(***************************************************************************)
EXTENDS Integers, Sequences, FiniteSets, TLC

VARIABLES heap, last, nops

vars == <<heap, last, nops>>

(***************************************************************************)
(* Bounds of the exploration.                                               *)
(***************************************************************************)
\* DataItems given to one DataEntry(...) construction
MaxItems == 2
\* DataItems given to one direct apply_tokens call
MaxTokens == 1
\* calls made on the two entries of Spec
MaxOps == 2
\* entries of Spec (self and other)
NumEntries == 2
\* entries of SpecPair and SpecLists
NumListEntries == 3
\* merge_lists calls made in SpecLists
MaxListOps == 1

\* the values DataItems carry
Values == {"a", "b"}

(***************************************************************************)
(* Token kinds and the DataTypes registry                                   *)
(***************************************************************************)
\* class DataTypes, in declaration order: desc and the class of its token
DataTypes ==
    << [desc |-> "IMAGE_SET",     token_type |-> "RedundantStorage"],
       [desc |-> "IMAGE_SET_ID",  token_type |-> "RedundantStorage"],
       [desc |-> "ABSOLUTE_FILE", token_type |-> "Filename"],
       [desc |-> "RELATIVE_FILE", token_type |-> "Filename"],
       [desc |-> "IMAGE_NAME",    token_type |-> "Unique"],
       [desc |-> "IMAGE_ID",      token_type |-> "Unique"],
       [desc |-> "CLASS_NAME",    token_type |-> "Storage"],
       [desc |-> "CLASS_ID",      token_type |-> "Storage"],
       [desc |-> "XMIN",          token_type |-> "Quantity"],
       [desc |-> "YMIN",          token_type |-> "Quantity"],
       [desc |-> "XMAX",          token_type |-> "Quantity"],
       [desc |-> "YMAX",          token_type |-> "Quantity"],
       [desc |-> "WIDTH",         token_type |-> "Quantity"],
       [desc |-> "HEIGHT",        token_type |-> "Quantity"],
       [desc |-> "GENERIC",       token_type |-> "Wildcard"] >>

token_type(desc) ==
    DataTypes[CHOOSE i \in DOMAIN DataTypes : DataTypes[i].desc = desc].token_type

\* isinstance(t, _UniqueToken): _UniqueToken and its subclass _FilenameToken
IsUniqueToken(desc) == token_type(desc) \in {"Unique", "Filename"}

\* isinstance(t, _RedundantStorageToken)
IsRedundantStorageToken(desc) == token_type(desc) = "RedundantStorage"

(***************************************************************************)
(* DataItem and the dict of an entry                                        *)
(***************************************************************************)
DataItem(delimiter, value) ==
    [delimiter |-> delimiter, islist |-> FALSE, vals |-> <<value>>]

\* union of _utils: a list stays the list it is, anything else becomes [x]
union(slot) == [slot EXCEPT !.islist = TRUE]

\* desc in data
Has(data, desc) == \E k \in DOMAIN data : data[k].delimiter = desc

\* data[desc]
Get(data, desc) == data[CHOOSE k \in DOMAIN data : data[k].delimiter = desc]

\* data[slot.delimiter.desc] = slot: a new key goes last, an old key keeps its place
DictSet(data, slot) ==
    IF Has(data, slot.delimiter)
    THEN [k \in DOMAIN data |->
            IF data[k].delimiter = slot.delimiter THEN slot ELSE data[k]]
    ELSE Append(data, slot)

RECURSIVE DictOf(_)
\* {item.delimiter.desc: item for item in items}
DictOf(items) ==
    IF items = <<>> THEN <<>>
    ELSE DictSet(DictOf(SubSeq(items, 1, Len(items) - 1)), items[Len(items)])

\* DataEntry.__init__
DataEntry(items) ==
    [unique |-> \E k \in DOMAIN items : IsUniqueToken(items[k].delimiter),
     data   |-> DictOf(items)]

\* the first exception of a sequence of per-item outcomes
FirstErr(errs) ==
    IF \A k \in DOMAIN errs : errs[k] = "none" THEN "none"
    ELSE errs[CHOOSE k \in DOMAIN errs :
                /\ errs[k] # "none"
                /\ \A j \in 1..(k - 1) : errs[j] = "none"]

\* the body of the second loop of merge and of apply_tokens, for one item
ApplyItem(data, item) ==
    IF ~Has(data, item.delimiter) THEN Append(data, item)
    ELSE IF IsRedundantStorageToken(item.delimiter)
         THEN LET old == union(Get(data, item.delimiter))
              IN  DictSet(data, [old EXCEPT !.vals = Append(@, item.vals[1])])
         ELSE data

RECURSIVE ApplyAll(_, _)
\* the second loop of merge and of apply_tokens
ApplyAll(data, items) ==
    IF items = <<>> THEN data
    ELSE ApplyAll(ApplyItem(data, Head(items)), Tail(items))

\* the check merge makes of one item of other (its first loop)
MergeCheck(data, item) ==
    IF item.islist THEN "AttributeError"
    ELSE IF /\ IsUniqueToken(item.delimiter)
            /\ Has(data, item.delimiter)
            /\ Get(data, item.delimiter) # item
         THEN "AssertionError"
         ELSE "none"

\* DataEntry.merge: the entry self becomes, and the exception raised
merge(self, other) ==
    LET err == FirstErr([k \in DOMAIN other.data |-> MergeCheck(self.data, other.data[k])])
    IN  IF err # "none" THEN [entry |-> self, err |-> err]
        ELSE [entry |-> [self EXCEPT !.data = ApplyAll(self.data, other.data)],
              err   |-> "none"]

\* the check apply_tokens makes of one item (its first loop)
TokenCheck(data, item) ==
    IF item.islist THEN "AttributeError"
    ELSE IF IsUniqueToken(item.delimiter)
         THEN IF ~Has(data, item.delimiter) THEN "KeyError"
              ELSE IF Get(data, item.delimiter) # item THEN "AssertionError"
              ELSE "none"
         ELSE "none"

\* DataEntry.apply_tokens
apply_tokens(self, items) ==
    LET err == FirstErr([k \in DOMAIN items |-> TokenCheck(self.data, items[k])])
    IN  IF err # "none" THEN [entry |-> self, err |-> err]
        ELSE [entry |-> [self EXCEPT !.data = ApplyAll(self.data, items)],
              err   |-> "none"]

\* SharesItem with the values compared and the delimiters not
SharesItemByValueOnly(selfdata, entrydata) ==
    \E k \in DOMAIN selfdata : \E m \in DOMAIN entrydata :
        selfdata[k].vals = entrydata[m].vals

\* item in entry.data.values() for some item of self: DataItem.__eq__, by
\* delimiter and value (a list equals only a list of equal items)
SharesItem(selfdata, entrydata) ==
    \E k \in DOMAIN selfdata : \E m \in DOMAIN entrydata : selfdata[k] = entrydata[m]

RECURSIVE PairAll(_, _, _)
\* the loop of apply_pairing over entries, on heap h; the first exception ends it
PairAll(h, self, entries) ==
    IF entries = <<>> THEN [heap |-> h, err |-> "none"]
    ELSE LET entry == Head(entries)
         IN  IF SharesItem(h[self].data, h[entry].data)
             THEN LET r == apply_tokens(h[entry], h[self].data)
                  IN  IF r.err # "none" THEN [heap |-> h, err |-> r.err]
                      ELSE PairAll([h EXCEPT ![entry] = r.entry], self, Tail(entries))
             ELSE PairAll(h, self, Tail(entries))

\* DataEntry.apply_pairing
apply_pairing(h, self, entries) ==
    IF h[self].unique THEN [heap |-> h, err |-> "ValueError"]
    ELSE PairAll(h, self, entries)

\* unique_identifiers with the types taken last to first
unique_identifiers_reversed ==
    LET uniq == SelectSeq(DataTypes, LAMBDA t : IsUniqueToken(t.desc))
    IN  [k \in DOMAIN uniq |-> uniq[Len(uniq) + 1 - k].desc]

\* the DataTypes whose token is a _UniqueToken, in declaration order
unique_identifiers ==
    LET uniq == SelectSeq(DataTypes, LAMBDA t : IsUniqueToken(t.desc))
    IN  [k \in DOMAIN uniq |-> uniq[k].desc]

\* hashmaps[desc].get(value): the entry of first the lookup holds for the value
\* (a later entry of first overwrites an earlier one), 0 when it holds none
hashmaps(h, first, desc, value) ==
    LET hits == {k \in DOMAIN first :
                    /\ Has(h[first[k]].data, desc)
                    /\ Get(h[first[k]].data, desc).vals[1] = value}
    IN  IF hits = {} THEN 0
        ELSE first[CHOOSE k \in hits : \A j \in hits : j <= k]

\* the unique identifiers under which entry has a value the lookup holds
Matching(h0, first, entry) ==
    SelectSeq(unique_identifiers,
              LAMBDA d : /\ Has(entry.data, d)
                         /\ hashmaps(h0, first, d, Get(entry.data, d).vals[1]) # 0)

RECURSIVE MergeAllLiveLookup(_, _, _, _)
\* MergeAll with the lookups following the merges made (built from the heap as
\* it is when an entry is matched, not once before the loop)
MergeAllLiveLookup(h0, first, second, st) ==
    IF second = <<>> THEN st
    ELSE LET e == Head(second)
             m == Matching(st.heap, first, st.heap[e])
         IN  IF m = <<>>
             THEN MergeAllLiveLookup(h0, first, Tail(second),
                                     [st EXCEPT !.additional_data = Append(@, e)])
             ELSE LET target == hashmaps(st.heap, first, m[1],
                                         Get(st.heap[e].data, m[1]).vals[1])
                      r == merge(st.heap[target], st.heap[e])
                  IN  IF r.err # "none" THEN [st EXCEPT !.err = r.err]
                      ELSE MergeAllLiveLookup(h0, first, Tail(second),
                                              [st EXCEPT !.heap[target] = r.entry,
                                                         !.log = Append(@, <<target, e>>)])

RECURSIVE MergeAllKeepsMerged(_, _, _, _)
\* MergeAll with a merged entry appended to the result as well
MergeAllKeepsMerged(h0, first, second, st) ==
    IF second = <<>> THEN st
    ELSE LET e == Head(second)
             m == Matching(h0, first, st.heap[e])
         IN  IF m = <<>>
             THEN MergeAllKeepsMerged(h0, first, Tail(second),
                                      [st EXCEPT !.additional_data = Append(@, e)])
             ELSE LET target == hashmaps(h0, first, m[1],
                                         Get(st.heap[e].data, m[1]).vals[1])
                      r == merge(st.heap[target], st.heap[e])
                  IN  IF r.err # "none" THEN [st EXCEPT !.err = r.err]
                      ELSE MergeAllKeepsMerged(h0, first, Tail(second),
                                               [st EXCEPT !.heap[target] = r.entry,
                                                          !.additional_data = Append(@, e),
                                                          !.log = Append(@, <<target, e>>)])

RECURSIVE MergeAll(_, _, _, _)
\* the loop of merge_lists over second; h0 is the heap the lookups were built
\* from, st the heap, the entries to append and the merges made so far
MergeAll(h0, first, second, st) ==
    IF second = <<>> THEN st
    ELSE LET e == Head(second)
             m == Matching(h0, first, st.heap[e])
         IN  IF m = <<>>
             THEN MergeAll(h0, first, Tail(second),
                           [st EXCEPT !.additional_data = Append(@, e)])
             ELSE LET target == hashmaps(h0, first, m[1],
                                         Get(st.heap[e].data, m[1]).vals[1])
                      r == merge(st.heap[target], st.heap[e])
                  IN  IF r.err # "none" THEN [st EXCEPT !.err = r.err]
                      ELSE MergeAll(h0, first, Tail(second),
                                    [st EXCEPT !.heap[target] = r.entry,
                                               !.log = Append(@, <<target, e>>)])

\* merge_lists(first, second): the heap after it, the exception raised, the list
\* returned (none when it raised) and the merge calls it made, as <<into, entry>>
merge_lists(h, first, second) ==
    LET st == MergeAll(h, first, second,
                       [heap |-> h, err |-> "none", additional_data |-> <<>>, log |-> <<>>])
    IN  [heap |-> st.heap, err |-> st.err, log |-> st.log,
         out  |-> IF st.err = "none" THEN first \o st.additional_data ELSE <<>>]

(***************************************************************************)
(* Inputs                                                                   *)
(***************************************************************************)
\* the fields the explored DataItems have: one of each identity policy, and
\* two Unique-kind ones (a _FilenameToken and a plain _UniqueToken)
Fields == {"RELATIVE_FILE", "IMAGE_ID", "CLASS_NAME", "IMAGE_SET"}

\* the fields of SpecPair
PairFields == {"IMAGE_ID", "CLASS_NAME", "IMAGE_SET"}

ItemsOf(F) == {DataItem(d, v) : d \in F, v \in Values}

Items == ItemsOf(Fields)

SeqsUpTo(S, n) == UNION {[1..m -> S] : m \in 0..n}

\* the entries DataEntry(...) constructs from items of the fields F
Constructed(F) == {DataEntry(items) : items \in SeqsUpTo(ItemsOf(F), MaxItems)}

NoCall ==
    [op |-> "none", self |-> 0, first |-> <<>>, second |-> <<>>, items |-> <<>>,
     pre |-> <<>>, err |-> "none", out |-> <<>>, log |-> <<>>]

(***************************************************************************)
(* Spec: two entries, merge and apply_tokens                                *)
(***************************************************************************)
Init ==
    /\ heap \in [1..NumEntries -> Constructed(Fields)]
    /\ last = NoCall
    /\ nops = 0

\* heap[i].merge(heap[j])
Merge(i, j) ==
    /\ nops < MaxOps
    /\ i # j
    /\ LET r == merge(heap[i], heap[j])
       IN  /\ heap' = [heap EXCEPT ![i] = r.entry]
           /\ last' = [NoCall EXCEPT !.op = "merge", !.self = i, !.second = <<j>>,
                                     !.pre = heap, !.err = r.err]
    /\ nops' = nops + 1

\* heap[i].apply_tokens(items)
ApplyTokens(i, items) ==
    /\ nops < MaxOps
    /\ LET r == apply_tokens(heap[i], items)
       IN  /\ heap' = [heap EXCEPT ![i] = r.entry]
           /\ last' = [NoCall EXCEPT !.op = "apply_tokens", !.self = i, !.items = items,
                                     !.pre = heap, !.err = r.err]
    /\ nops' = nops + 1

Next ==
    \/ \E i, j \in DOMAIN heap : Merge(i, j)
    \/ \E i \in DOMAIN heap, items \in SeqsUpTo(Items, MaxTokens) : ApplyTokens(i, items)

Spec == Init /\ [][Next]_vars

(***************************************************************************)
(* SpecPair: three entries, apply_pairing after at most one merge           *)
(***************************************************************************)
InitPair ==
    /\ heap \in [1..NumListEntries -> Constructed(PairFields)]
    /\ last = NoCall
    /\ nops = 0

\* the lists of distinct entries other than self
Others(self) ==
    {s \in SeqsUpTo(DOMAIN heap \ {self}, Cardinality(DOMAIN heap) - 1) :
        \A k, m \in DOMAIN s : k # m => s[k] # s[m]}

\* heap[self].apply_pairing(entries)
ApplyPairing(self, entries) ==
    /\ nops < MaxOps
    /\ LET r == apply_pairing(heap, self, entries)
       IN  /\ heap' = r.heap
           /\ last' = [NoCall EXCEPT !.op = "apply_pairing", !.self = self,
                                     !.second = entries, !.pre = heap, !.err = r.err]
    /\ nops' = nops + 1

\* the pairing entry is heap[1]; a merge may come before the pairing
NextPair ==
    \/ \E i, j \in DOMAIN heap : nops = 0 /\ Merge(i, j)
    \/ \E entries \in Others(1) : ApplyPairing(1, entries)

SpecPair == InitPair /\ [][NextPair]_vars

(***************************************************************************)
(* SpecLists: three entries, one merge_lists call                           *)
(***************************************************************************)
InitLists ==
    /\ heap \in [1..NumListEntries -> Constructed(Fields)]
    /\ last = NoCall
    /\ nops = 0

\* the two lists a call is given: the entries in heap order, cut in two
Splits == {<<SubSeq([k \in DOMAIN heap |-> k], 1, c),
             SubSeq([k \in DOMAIN heap |-> k], c + 1, Len(heap))>> : c \in 0..Len(heap)}

\* merge_lists(first, second)
MergeLists(first, second) ==
    /\ nops < MaxListOps
    /\ LET r == merge_lists(heap, first, second)
       IN  /\ heap' = r.heap
           /\ last' = [NoCall EXCEPT !.op = "merge_lists", !.first = first,
                                     !.second = second, !.pre = heap, !.err = r.err,
                                     !.out = r.out, !.log = r.log]
    /\ nops' = nops + 1

NextLists == \E s \in Splits : MergeLists(s[1], s[2])

SpecLists == InitLists /\ [][NextLists]_vars

(***************************************************************************)
(* Vocabulary of the properties                                             *)
(***************************************************************************)
Range(s) == {s[k] : k \in DOMAIN s}

\* the descs of the Unique-kind DataTypes (Filename-kind included)
UniqueDescs == {DataTypes[i].desc : i \in {j \in DOMAIN DataTypes :
                    DataTypes[j].token_type \in {"Unique", "Filename"}}}

RedundantDescs == {DataTypes[i].desc : i \in {j \in DOMAIN DataTypes :
                    DataTypes[j].token_type = "RedundantStorage"}}

\* the fields an entry holds, and the slot it holds for one of them
FieldsOf(e) == {e.data[k].delimiter : k \in DOMAIN e.data}

SlotOf(e, d) == e.data[CHOOSE k \in DOMAIN e.data : e.data[k].delimiter = d]

\* both entries hold a Unique-kind field, with differing values
UniqueConflict(a, b) ==
    \E d \in UniqueDescs \cap FieldsOf(a) \cap FieldsOf(b) : SlotOf(a, d) # SlotOf(b, d)

\* the entry a call was made on and the entry it was given, before the call
PreSelf == last.pre[last.self]

PreOther == last.pre[last.second[1]]

(***************************************************************************)
(* Properties of merge and apply_tokens, checked under Spec                 *)
(***************************************************************************)
\* C1: self.merge(other), with self and other holding a Unique-kind field with
\* differing values, raises the conflict error (the AssertionError of merge's
\* first loop) and leaves self and other as they were.
C1_MergeConflictAllOrNothing ==
    (last.op = "merge" /\ UniqueConflict(PreSelf, PreOther))
        => (last.err = "AssertionError" /\ heap = last.pre)

\* C3: self.apply_tokens(items) ends as self.merge(DataEntry(items)) does: the
\* same exception or none, and the same fields and values of self.
C3_ApplyTokensAsMerge ==
    last.op = "apply_tokens"
        => LET m == merge(PreSelf, DataEntry(last.items))
           IN  /\ last.err = m.err
               /\ heap[last.self].data = m.entry.data

\* C6: an entry's unique flag is true iff one of the items it holds has a
\* Unique-kind type.
C6_UniqueFlag ==
    \A i \in DOMAIN heap : heap[i].unique <=> (FieldsOf(heap[i]) \cap UniqueDescs # {})

\* C9: self.merge(other), both holding the same Redundant Storage field (and no
\* conflicting Unique-kind field), completes; the field of self then is the flat
\* sequence of the values self held followed by the values other supplied, and
\* every other field self held keeps its slot.
C9_RedundantAccumulation ==
    (/\ last.op = "merge"
     /\ RedundantDescs \cap FieldsOf(PreSelf) \cap FieldsOf(PreOther) # {}
     /\ ~UniqueConflict(PreSelf, PreOther))
        => /\ last.err = "none"
           /\ \A d \in FieldsOf(PreSelf) :
                SlotOf(heap[last.self], d) =
                    IF d \in RedundantDescs \cap FieldsOf(PreOther)
                    THEN [delimiter |-> d, islist |-> TRUE,
                          vals |-> SlotOf(PreSelf, d).vals \o SlotOf(PreOther, d).vals]
                    ELSE SlotOf(PreSelf, d)

(***************************************************************************)
(* Properties of merge_lists, checked under SpecLists                       *)
(***************************************************************************)
\* entry a of the heap h holds the value entry e holds for the Unique-kind field d
SameUnique(h, a, e, d) ==
    /\ d \in FieldsOf(h[a]) \cap FieldsOf(h[e])
    /\ SlotOf(h[a], d) = SlotOf(h[e], d)

\* the entries of the list A that hold a Unique-kind value of e
Partners(h, A, e) == {a \in Range(A) : \E d \in UniqueDescs : SameUnique(h, a, e, d)}

\* no two distinct entries of the list hold the same value for a Unique-kind type
NoSharedIdentity(h, list) ==
    \A k, m \in DOMAIN list :
        k # m => \A d \in UniqueDescs : ~SameUnique(h, list[k], list[m], d)

\* C2: when merge_lists raises the conflict error, every entry of base and of
\* incoming is as it was before the call.
C2_NoPartialResults ==
    (last.op = "merge_lists" /\ last.err = "AssertionError") => heap = last.pre

\* C4: when merge_lists(A, B) completes, the result is A, in order, followed by
\* the entries of B, in order, none of whose Unique-kind values is held by an
\* entry of A at the time of the call: len(A) + k entries.
C4_ResultEntries ==
    (last.op = "merge_lists" /\ last.err = "none")
        => LET unmatched == SelectSeq(last.second,
                                LAMBDA e : Partners(last.pre, last.first, e) = {})
           IN  /\ last.out = last.first \o unmatched
               /\ Len(last.out) = Len(last.first) + Len(unmatched)

C4_Witness ==
    /\ last.op = "merge_lists" /\ last.err = "none"
    /\ Len(last.first) = 1 /\ Len(last.second) = 2
    /\ Len(last.out) = 2
    /\ heap # last.pre

\* the order claimed for the Unique-kind types
DeclarationOrder == <<"ABSOLUTE_FILE", "RELATIVE_FILE", "IMAGE_NAME", "IMAGE_ID">>

\* the Unique-kind types, in the claimed order, under which an entry of A holds e's value
Claims(h, A, e) ==
    SelectSeq(DeclarationOrder, LAMBDA d : \E a \in Range(A) : SameUnique(h, a, e, d))

\* the entry the lookup of type d holds for e's value: the last such entry of A
Claimant(h, A, e, d) ==
    A[CHOOSE k \in DOMAIN A :
        /\ SameUnique(h, A[k], e, d)
        /\ \A j \in DOMAIN A : SameUnique(h, A[j], e, d) => j <= k]

\* C5: every merge that merge_lists makes of an incoming entry e goes into the
\* entry that the lookup of the first Unique-kind type, in declaration order,
\* holds for e's value; e is merged once, and no other entry changes.
C5_TieBreak ==
    last.op = "merge_lists"
        => /\ \A k \in DOMAIN last.log :
                LET e == last.log[k][2]
                    c == Claims(last.pre, last.first, e)
                IN  /\ c # <<>>
                    /\ last.log[k][1] = Claimant(last.pre, last.first, e, c[1])
           /\ \A k, m \in DOMAIN last.log : last.log[k][2] = last.log[m][2] => k = m
           /\ \A x \in DOMAIN heap :
                (\A k \in DOMAIN last.log : last.log[k][1] # x) => heap[x] = last.pre[x]
           /\ (last.err = "none" /\ Len(last.second) = 1 /\ last.log # <<>>)
                => LET e == last.second[1]
                       c == Claims(last.pre, last.first, e)
                       t == Claimant(last.pre, last.first, e, c[1])
                   IN  heap = [last.pre EXCEPT ![t] = merge(last.pre[t], last.pre[e]).entry]

\* an incoming entry whose second Unique-kind value belongs to another base entry
C5_Witness ==
    /\ last.op = "merge_lists" /\ last.err = "none"
    /\ Len(last.second) = 1 /\ Len(last.log) = 1
    /\ LET e == last.second[1]
           c == Claims(last.pre, last.first, e)
       IN  /\ Len(c) = 2
           /\ Claimant(last.pre, last.first, e, c[2]) # last.log[1][1]
           /\ heap[last.log[1][1]] # last.pre[last.log[1][1]]

\* the record of an entry: its field-to-value mapping, whatever the order of the fields
RecordOf(e) == Range(e.data)

\* the collection of records of a list of entries: how many entries hold each record
Records(h, list) ==
    [r \in {RecordOf(h[list[k]]) : k \in DOMAIN list} |->
        Cardinality({k \in DOMAIN list : RecordOf(h[list[k]]) = r})]

\* no two of the entries disagree on the value of a shared Unique-kind field
NoUniqueDisagreement(h, S) == \A a, b \in S : ~UniqueConflict(h[a], h[b])

PairedInputs(h, A, B) ==
    /\ \A x \in Range(A) \cup Range(B) : \A k \in DOMAIN h[x].data : ~h[x].data[k].islist
    /\ NoSharedIdentity(h, A) /\ NoSharedIdentity(h, B)
    /\ \A e \in Range(B) : Cardinality(Partners(h, A, e)) <= 1
    /\ \A a \in Range(A) : Cardinality(Partners(h, B, a)) <= 1
    /\ \A a \in Range(A), e \in Range(B) :
          a \in Partners(h, A, e)
              => \A d \in FieldsOf(h[a]) \cap FieldsOf(h[e]) : SlotOf(h[a], d) = SlotOf(h[e], d)

C10_NoDuplicateIdentity ==
    (/\ last.op = "merge_lists" /\ last.err = "none"
     /\ NoSharedIdentity(last.pre, last.first)
     /\ NoSharedIdentity(last.pre, last.second))
        => NoSharedIdentity(heap, last.out)

\* C10, amended: the same, for incoming entries each of which shares Unique-kind
\* values with at most one entry of base.
C10_NoDuplicateIdentityWhenOnePartner ==
    (/\ last.op = "merge_lists" /\ last.err = "none"
     /\ NoSharedIdentity(last.pre, last.first)
     /\ NoSharedIdentity(last.pre, last.second)
     /\ \A e \in Range(last.second) : Cardinality(Partners(last.pre, last.first, e)) <= 1)
        => NoSharedIdentity(heap, last.out)

\* a base entry gains a Unique-kind value from the incoming entry merged into it
C10_Witness ==
    /\ last.op = "merge_lists" /\ last.err = "none"
    /\ NoSharedIdentity(last.pre, last.first)
    /\ NoSharedIdentity(last.pre, last.second)
    /\ \A e \in Range(last.second) : Cardinality(Partners(last.pre, last.first, e)) <= 1
    /\ Len(last.first) = 2 /\ Len(last.out) = 2
    /\ \E k \in DOMAIN last.log :
          (FieldsOf(heap[last.log[k][1]]) \ FieldsOf(last.pre[last.log[k][1]]))
              \cap UniqueDescs # {}

(***************************************************************************)
(* Properties of apply_pairing, checked under SpecPair                      *)
(***************************************************************************)
\* the values an entry holds, under whatever field
ValuesOf(e) == UNION {Range(e.data[k].vals) : k \in DOMAIN e.data}

\* what apply_tokens makes of candidate c when given all the items of self
Broadcast(c) == apply_tokens(last.pre[c], PreSelf.data)

\* C7, as stated: apply_pairing of a non-unique self applies all of self's items,
\* via apply_tokens, to every candidate in which a value of self appears under
\* any field, and leaves every other candidate unchanged.
C7_BroadcastOnSharedValue ==
    (last.op = "apply_pairing" /\ ~PreSelf.unique /\ last.err = "none")
        => \A c \in Range(last.second) :
              heap[c] = IF ValuesOf(PreSelf) \cap ValuesOf(last.pre[c]) # {}
                        THEN Broadcast(c).entry
                        ELSE last.pre[c]

\* candidate number k holds an item self holds: the same field with the same value
HoldsItemOfSelf(k) == RecordOf(PreSelf) \cap RecordOf(last.pre[last.second[k]]) # {}

\* the apply_tokens call made on candidate number k raises
Raises(k) == HoldsItemOfSelf(k) /\ Broadcast(last.second[k]).err # "none"

\* C7, amended: apply_pairing of a non-unique self takes the candidates in order;
\* a candidate holding an item of self (same field, same value) gets all of
\* self's items via apply_tokens, a candidate holding none is left unchanged; the
\* first apply_tokens call that raises ends the pairing with that exception, that
\* candidate and the later ones unchanged.
C7_BroadcastOnSharedItem ==
    (last.op = "apply_pairing" /\ ~PreSelf.unique)
        => /\ \A k \in DOMAIN last.second :
                heap[last.second[k]] =
                    IF HoldsItemOfSelf(k) /\ \A j \in 1..k : ~Raises(j)
                    THEN Broadcast(last.second[k]).entry
                    ELSE last.pre[last.second[k]]
           /\ heap[last.self] = PreSelf
           /\ (last.err = "none") <=> (\A k \in DOMAIN last.second : ~Raises(k))
           /\ \A k \in DOMAIN last.second :
                (Raises(k) /\ \A j \in 1..(k - 1) : ~Raises(j))
                    => last.err = Broadcast(last.second[k]).err

\* of two candidates, one holds an item of self and gains a field; the other
\* holds a value of self under another field only and stays as it was
C7_Witness ==
    /\ last.op = "apply_pairing" /\ ~PreSelf.unique /\ last.err = "none"
    /\ Len(last.second) = 2
    /\ \E k, m \in DOMAIN last.second :
          /\ HoldsItemOfSelf(k)
          /\ heap[last.second[k]] # last.pre[last.second[k]]
          /\ ~HoldsItemOfSelf(m)
          /\ ValuesOf(PreSelf) \cap ValuesOf(last.pre[last.second[m]]) # {}
          /\ heap[last.second[m]] = last.pre[last.second[m]]

====
